---- MODULE Spec2Model ----
(***************************************************************************)
(* The CHIP-8 execution core of src/src/processor.rs: the Cpu state, the   *)
(* constructor, read_opcode, the instruction handlers and run.             *)
(***************************************************************************)
EXTENDS Integers, Sequences, FiniteSets, TLC

\* ---------------------------------------------------------------- constants

CHIP8_OPCODE_SIZE == 2
CHIP8_FONT_SET_SIZE == 80
CHIP8_RAM == 4096
CHIP8_HEIGHT == 32
CHIP8_WIDTH == 64
CHIP8_NUM_REGS == 16
\* stack: [u16; 16]
STACK_LEN == 16
\* the widths of u8 and u16
U8_MOD == 256
U16_MOD == 65536

\* crate::FONT_SET, the 16 hexadecimal digit sprites of 5 bytes each
FONT_SET ==
    << 240, 144, 144, 144, 240,    32,  96,  32,  32, 112,
       240,  16, 240, 128, 240,   240,  16, 240,  16, 240,
       144, 144, 240,  16,  16,   240, 128, 240,  16, 240,
       240, 128, 240, 144, 240,   240,  16,  32,  64,  64,
       240, 144, 240, 144, 240,   240, 144, 240,  16, 240,
       240, 144, 240, 144, 144,   224, 144, 224, 144, 224,
       240, 128, 128, 128, 240,   224, 144, 144, 144, 224,
       240, 128, 240, 128, 240,   240, 128, 240, 128, 128 >>

\* ------------------------------------------------------------------- bounds

\* the number of calls of run in one behaviour
MaxSteps == 3
\* the number of calls of run in one behaviour of calls and returns
MaxCalls == 17
\* the number of calls of run on a Cpu whose fields were set beforehand
MaxFieldSteps == 2
\* the number of calls of run in one behaviour of nested calls and returns
MaxNestSteps == 30
\* how far from 0, 128 and 255 the register contents drawn for one
\* instruction reach
ByteSpan == 2

\* ------------------------------------------------------------------- state

VARIABLES
    ram,              \* [u8; CHIP8_RAM]
    stack,            \* [u16; 16]
    pc,               \* u16
    sp,               \* u8
    dt,               \* u8
    st,               \* u8
    i,                \* u16
    v,                \* [u8; CHIP8_NUM_REGS]
    vram,             \* [[u8; CHIP8_WIDTH]; CHIP8_HEIGHT]
    overflow_checks,  \* the build: TRUE when integer overflow panics (debug),
                      \* FALSE when it wraps (release)
    status,           \* "new" after Cpu::new, "ok" after a run that returned,
                      \* else the panic that ended the last call
    opcode,           \* the argument of the last call of run
    before,           \* pc, sp, stack and v as the last call of run found them
    fetched,          \* what the last read_opcode returned
    steps,            \* the calls of run so far
    pushed            \* the pc values the CALLs wrote to the stack and no RET
                      \* has taken back yet, oldest first

vars == << ram, stack, pc, sp, dt, st, i, v, vram, overflow_checks,
           status, opcode, before, fetched, steps, pushed >>

\* ------------------------------------------------------------ bit operations

RECURSIVE BitAnd(_, _)
BitAnd(a, b) ==
    IF a = 0 \/ b = 0 THEN 0
    ELSE (a % 2) * (b % 2) + 2 * BitAnd(a \div 2, b \div 2)

RECURSIVE BitOr(_, _)
BitOr(a, b) ==
    IF a = 0 THEN b
    ELSE IF b = 0 THEN a
    ELSE (IF a % 2 = 1 \/ b % 2 = 1 THEN 1 ELSE 0) + 2 * BitOr(a \div 2, b \div 2)

RECURSIVE BitXor(_, _)
BitXor(a, b) ==
    IF a = 0 THEN b
    ELSE IF b = 0 THEN a
    ELSE ((a + b) % 2) + 2 * BitXor(a \div 2, b \div 2)

\* u8 << 1 and u8 >> 1
Shl1(a) == (2 * a) % U8_MOD
Shr1(a) == a \div 2

\* u8::overflowing_add and u8::overflowing_sub
overflowing_add(a, b) ==
    [result |-> (a + b) % U8_MOD, overflow |-> a + b >= U8_MOD]
overflowing_sub(a, b) ==
    [result |-> (a - b) % U8_MOD, overflow |-> a < b]

\* ------------------------------------------------------ ProgramCounterAction

PCA_Skip == [kind |-> "Skip", addr |-> 0]
PCA_Next == [kind |-> "Next", addr |-> 0]
PCA_Jump(addr) == [kind |-> "Jump", addr |-> addr]

skip_if(condition) == IF condition THEN PCA_Skip ELSE PCA_Next

\* ---------------------------------------------------------------- Cpu::new

\* Cpu::new with the font copy one byte short
Init_font_one_short ==
    /\ ram = [a \in 0 .. CHIP8_RAM - 1 |->
                IF a < CHIP8_FONT_SET_SIZE - 1 THEN FONT_SET[a + 1] ELSE 0]
    /\ pc = 512
    /\ vram = [row \in 0 .. CHIP8_HEIGHT - 1 |-> [col \in 0 .. CHIP8_WIDTH - 1 |-> 0]]
    /\ sp = 0
    /\ dt = 0
    /\ st = 0
    /\ i = 0
    /\ v = [r \in 0 .. CHIP8_NUM_REGS - 1 |-> 0]
    /\ stack = [s \in 0 .. STACK_LEN - 1 |-> 0]
    /\ overflow_checks \in BOOLEAN
    /\ status = "new"
    /\ opcode = 0
    /\ before = [pc |-> 512, sp |-> 0,
                 stack |-> [s \in 0 .. STACK_LEN - 1 |-> 0],
                 v |-> [r \in 0 .. CHIP8_NUM_REGS - 1 |-> 0]]
    /\ fetched = 0
    /\ steps = 0
    /\ pushed = << >>

Init ==
    /\ ram = [a \in 0 .. CHIP8_RAM - 1 |->
                IF a < CHIP8_FONT_SET_SIZE THEN FONT_SET[a + 1] ELSE 0]
    /\ pc = 512
    /\ vram = [row \in 0 .. CHIP8_HEIGHT - 1 |-> [col \in 0 .. CHIP8_WIDTH - 1 |-> 0]]
    /\ sp = 0
    /\ dt = 0
    /\ st = 0
    /\ i = 0
    /\ v = [r \in 0 .. CHIP8_NUM_REGS - 1 |-> 0]
    /\ stack = [s \in 0 .. STACK_LEN - 1 |-> 0]
    /\ overflow_checks \in BOOLEAN
    /\ status = "new"
    /\ opcode = 0
    /\ before = [pc |-> 512, sp |-> 0,
                 stack |-> [s \in 0 .. STACK_LEN - 1 |-> 0],
                 v |-> [r \in 0 .. CHIP8_NUM_REGS - 1 |-> 0]]
    /\ fetched = 0
    /\ steps = 0
    /\ pushed = << >>

\* ------------------------------------------------------------------ handlers
\* A handler's effect: the fields it leaves, the ProgramCounterAction it returns
\* and, when it panics instead of returning, the panic ("none" otherwise).

Keep(action) ==
    [v |-> v, sp |-> sp, stack |-> stack, vram |-> vram,
     panic |-> "none", action |-> action]

Panic(kind) == [Keep(PCA_Next) EXCEPT !.panic = kind]

op_3xkk(x, kk) == Keep(skip_if(v[x] = kk))

\* op_4xkk with the comparison of op_3xkk
op_4xkk_as_3xkk(x, kk) == Keep(skip_if(v[x] = kk))

op_4xkk(x, kk) == Keep(skip_if(v[x] # kk))

op_5xy0(x, y) == Keep(skip_if(v[x] = v[y]))

op_6xkk(x, kk) == [Keep(PCA_Next) EXCEPT !.v = [v EXCEPT ![x] = kk]]

\* self.v[x] += kk: an overflow panics in a build with overflow checks and
\* wraps in one without
op_7xkk(x, kk) ==
    IF v[x] + kk >= U8_MOD /\ overflow_checks
    THEN Panic("overflow")
    ELSE [Keep(PCA_Next) EXCEPT !.v = [v EXCEPT ![x] = (v[x] + kk) % U8_MOD]]

op_8xy0(x, y) == [Keep(PCA_Next) EXCEPT !.v = [v EXCEPT ![x] = v[y]]]

op_8xy1(x, y) == [Keep(PCA_Next) EXCEPT !.v = [v EXCEPT ![x] = BitOr(v[x], v[y])]]

\* op_8xy2 with the operator of op_8xy1
op_8xy2_as_or(x, y) == [Keep(PCA_Next) EXCEPT !.v = [v EXCEPT ![x] = BitOr(v[x], v[y])]]

op_8xy2(x, y) == [Keep(PCA_Next) EXCEPT !.v = [v EXCEPT ![x] = BitAnd(v[x], v[y])]]

op_8xy3(x, y) == [Keep(PCA_Next) EXCEPT !.v = [v EXCEPT ![x] = BitXor(v[x], v[y])]]

\* op_8xy4 as a wrapping add that forgets the carry, like op_7xkk
op_8xy4_without_carry(x, y) ==
    [Keep(PCA_Next) EXCEPT !.v = [v EXCEPT ![x] = (v[x] + v[y]) % U8_MOD]]

\* v[x] is written first and v[0xf] second
op_8xy4(x, y) ==
    LET r  == overflowing_add(v[x], v[y])
        v1 == [v EXCEPT ![x] = r.result]
        v2 == [v1 EXCEPT ![15] = IF r.overflow THEN 1 ELSE 0]
    IN  [Keep(PCA_Next) EXCEPT !.v = v2]

op_8xy5(x, y) ==
    LET r  == overflowing_sub(v[x], v[y])
        v1 == [v EXCEPT ![x] = r.result]
        v2 == [v1 EXCEPT ![15] = IF r.overflow THEN 1 ELSE 0]
    IN  [Keep(PCA_Next) EXCEPT !.v = v2]

\* op_8xy6 shifting Vy into Vx, as the original COSMAC interpreter does
op_8xy6_from_vy(x, y) ==
    LET v1 == [v EXCEPT ![15] = BitAnd(v[y], 1)]
        v2 == [v1 EXCEPT ![x] = Shr1(v1[y])]
    IN  [Keep(PCA_Next) EXCEPT !.v = v2]

\* v[0xf] is written first and v[x] second, from the registers as the first
\* write left them
op_8xy6(x, y) ==
    LET v1 == [v EXCEPT ![15] = BitAnd(v[x], 1)]
        v2 == [v1 EXCEPT ![x] = Shr1(v1[x])]
    IN  [Keep(PCA_Next) EXCEPT !.v = v2]

\* op_8xy7 with the operands in the order of op_8xy5
op_8xy7_as_8xy5(x, y) ==
    LET r  == overflowing_sub(v[x], v[y])
        v1 == [v EXCEPT ![x] = r.result]
        v2 == [v1 EXCEPT ![15] = IF r.overflow THEN 1 ELSE 0]
    IN  [Keep(PCA_Next) EXCEPT !.v = v2]

op_8xy7(x, y) ==
    LET r  == overflowing_sub(v[y], v[x])
        v1 == [v EXCEPT ![x] = r.result]
        v2 == [v1 EXCEPT ![15] = IF r.overflow THEN 1 ELSE 0]
    IN  [Keep(PCA_Next) EXCEPT !.v = v2]

op_8xye(x, y) ==
    LET tmp == BitAnd(v[x], 128)
        v1  == [v EXCEPT ![15] = IF tmp > 0 THEN 1 ELSE 0]
        v2  == [v1 EXCEPT ![x] = Shl1(v1[x])]
    IN  [Keep(PCA_Next) EXCEPT !.v = v2]

\* RET: self.stack[self.sp] is bounds-checked, then self.sp -= 1 underflows
\* at sp = 0 (a panic with overflow checks, a wrap to 255 without)
\* op_00ee decrementing sp before it reads the stack
op_00ee_reads_after_decrement ==
    IF sp >= STACK_LEN THEN Panic("stack_index")
    ELSE IF sp = 0 /\ overflow_checks THEN Panic("overflow")
    ELSE [Keep(PCA_Jump(stack[((sp - 1) % U8_MOD) % STACK_LEN])) EXCEPT !.sp = (sp - 1) % U8_MOD]

op_00ee ==
    IF sp >= STACK_LEN THEN Panic("stack_index")
    ELSE IF sp = 0 /\ overflow_checks THEN Panic("overflow")
    ELSE [Keep(PCA_Jump(stack[sp])) EXCEPT !.sp = (sp - 1) % U8_MOD]

op_1nnn(nnn) == Keep(PCA_Jump(nnn))

\* CALL: self.sp += 1 overflows at sp = 255; the write to self.stack[self.sp]
\* is bounds-checked after sp has been incremented
op_2nnn(nnn) ==
    IF sp + 1 >= U8_MOD /\ overflow_checks THEN Panic("overflow")
    ELSE LET sp1 == (sp + 1) % U8_MOD IN
         IF sp1 >= STACK_LEN
         THEN [Panic("stack_index") EXCEPT !.sp = sp1]
         ELSE [Keep(PCA_Jump(nnn)) EXCEPT !.sp = sp1,
                                          !.stack = [stack EXCEPT ![sp1] = pc]]

\* op_00e0 with the row loop one short
op_00e0_last_row_kept ==
    [Keep(PCA_Next) EXCEPT
        !.vram = [row \in 0 .. CHIP8_HEIGHT - 1 |-> [col \in 0 .. CHIP8_WIDTH - 1 |->
                    IF row < CHIP8_HEIGHT - 1 THEN 0 ELSE vram[row][col]]]]

op_00e0 ==
    [Keep(PCA_Next) EXCEPT
        !.vram = [row \in 0 .. CHIP8_HEIGHT - 1 |-> [col \in 0 .. CHIP8_WIDTH - 1 |-> 0]]]

\* ----------------------------------------------------------------- decoding

Nibble1(op) == (op \div 4096) % 16
Nibble2(op) == (op \div 256) % 16
Nibble3(op) == (op \div 16) % 16
Nibble4(op) == op % 16
NNN(op) == op % 4096
KK(op) == op % 256

\* the last arm of the match as a no-op
unimplemented_as_nop == Keep(PCA_Next)

\* the last arm of the match: panic!("chip8.cpu: unimplemented instruction")
unimplemented == Panic("unimplemented")

\* the match of run on the nibbles, in the order of its arms
Dispatch(op) ==
    LET n1  == Nibble1(op)
        x   == Nibble2(op)
        y   == Nibble3(op)
        n   == Nibble4(op)
        nnn == NNN(op)
        kk  == KK(op)
    IN  CASE n1 = 0 /\ x = 0 /\ y = 14 /\ n = 0  -> op_00e0
          [] n1 = 0 /\ x = 0 /\ y = 14 /\ n = 14 -> op_00ee
          [] n1 = 1 -> op_1nnn(nnn)
          [] n1 = 2 -> op_2nnn(nnn)
          [] n1 = 3 -> op_3xkk(x, kk)
          [] n1 = 4 -> op_4xkk(x, kk)
          [] n1 = 5 /\ n = 0 -> op_5xy0(x, y)
          [] n1 = 6 -> op_6xkk(x, kk)
          [] n1 = 7 -> op_7xkk(x, kk)
          [] n1 = 8 /\ n = 0 -> op_8xy0(x, y)
          [] n1 = 8 /\ n = 1 -> op_8xy1(x, y)
          [] n1 = 8 /\ n = 2 -> op_8xy2(x, y)
          [] n1 = 8 /\ n = 3 -> op_8xy3(x, y)
          [] n1 = 8 /\ n = 4 -> op_8xy4(x, y)
          [] n1 = 8 /\ n = 5 -> op_8xy5(x, y)
          [] n1 = 8 /\ n = 6 -> op_8xy6(x, y)
          [] n1 = 8 /\ n = 7 -> op_8xy7(x, y)
          [] n1 = 8 /\ n = 14 -> op_8xye(x, y)
          [] OTHER -> unimplemented

\* the match of run on the action with Next advancing by one byte
Advance_by_byte(action) ==
    LET d == IF action.kind = "Next" THEN 1 ELSE 2 * CHIP8_OPCODE_SIZE
    IN  IF action.kind = "Jump" THEN [pc |-> action.addr, panic |-> "none"]
        ELSE IF pc + d >= U16_MOD /\ overflow_checks
             THEN [pc |-> pc, panic |-> "overflow"]
             ELSE [pc |-> (pc + d) % U16_MOD, panic |-> "none"]

\* the match of run on the action: self.pc += ... overflows a u16 like any
\* other addition
Advance(action) ==
    LET d == IF action.kind = "Next" THEN CHIP8_OPCODE_SIZE ELSE 2 * CHIP8_OPCODE_SIZE
    IN  IF action.kind = "Jump" THEN [pc |-> action.addr, panic |-> "none"]
        ELSE IF pc + d >= U16_MOD /\ overflow_checks
             THEN [pc |-> pc, panic |-> "overflow"]
             ELSE [pc |-> (pc + d) % U16_MOD, panic |-> "none"]

\* ------------------------------------------------------------------ actions

Live == status \in {"new", "ok"}

\* What a call of run does to the record of the pc values that op_2nnn wrote
\* to the stack: a 2nnn that returns adds the pc it stored, a 00EE that returns
\* takes the newest one.
Pushed(op, returned) ==
    IF ~returned THEN pushed
    ELSE IF Nibble1(op) = 2 THEN Append(pushed, pc)
    ELSE IF << Nibble1(op), Nibble2(op), Nibble3(op), Nibble4(op) >> = << 0, 0, 14, 14 >>
         THEN SubSeq(pushed, 1, Len(pushed) - 1)
    ELSE pushed

\* run counting the two timers down, as a core that kept time itself would
run_ticking_timers(op) ==
    /\ Live
    /\ LET r == Dispatch(op)
           a == Advance(r.action)
       IN  /\ v' = r.v
           /\ sp' = r.sp
           /\ stack' = r.stack
           /\ vram' = r.vram
           /\ IF r.panic # "none"
              THEN pc' = pc /\ status' = r.panic
              ELSE pc' = a.pc /\ status' = (IF a.panic = "none" THEN "ok" ELSE a.panic)
           /\ pushed' = Pushed(op, r.panic = "none" /\ a.panic = "none")
    /\ opcode' = op
    /\ before' = [pc |-> pc, sp |-> sp, stack |-> stack, v |-> v]
    /\ steps' = steps + 1
    /\ dt' = (IF dt > 0 THEN dt - 1 ELSE 0)
    /\ st' = (IF st > 0 THEN st - 1 ELSE 0)
    /\ UNCHANGED << ram, i, overflow_checks, fetched >>

run(op) ==
    /\ Live
    /\ LET r == Dispatch(op)
           a == Advance(r.action)
       IN  /\ v' = r.v
           /\ sp' = r.sp
           /\ stack' = r.stack
           /\ vram' = r.vram
           /\ IF r.panic # "none"
              THEN pc' = pc /\ status' = r.panic
              ELSE pc' = a.pc /\ status' = (IF a.panic = "none" THEN "ok" ELSE a.panic)
           /\ pushed' = Pushed(op, r.panic = "none" /\ a.panic = "none")
    /\ opcode' = op
    /\ before' = [pc |-> pc, sp |-> sp, stack |-> stack, v |-> v]
    /\ steps' = steps + 1
    /\ UNCHANGED << ram, dt, st, i, overflow_checks, fetched >>

\* read_opcode with the two bytes in little-endian order
read_opcode_little_endian ==
    /\ Live
    /\ IF pc + 1 >= CHIP8_RAM
       THEN status' = "ram_index" /\ UNCHANGED fetched
       ELSE /\ fetched' = BitOr((ram[pc + 1] * 256) % U16_MOD, ram[pc])
            /\ UNCHANGED status
    /\ UNCHANGED << ram, stack, pc, sp, dt, st, i, v, vram, overflow_checks,
                    opcode, before, steps, pushed >>

\* both indexings of self.ram are bounds-checked
read_opcode ==
    /\ Live
    /\ IF pc + 1 >= CHIP8_RAM
       THEN status' = "ram_index" /\ UNCHANGED fetched
       ELSE /\ fetched' = BitOr((ram[pc] * 256) % U16_MOD, ram[pc + 1])
            /\ UNCHANGED status
    /\ UNCHANGED << ram, stack, pc, sp, dt, st, i, v, vram, overflow_checks,
                    opcode, before, steps, pushed >>

\* ------------------------------------------------------------------- inputs

Op(n1, n2, n3, n4) == n1 * 4096 + n2 * 256 + n3 * 16 + n4

\* The opcodes a behaviour from construction is stepped with: every control
\* instruction over a few addresses (an even and an odd one, and the last two
\* bytes of ram), one instruction of every register family, and opcodes that
\* match no arm of run.
Addrs == {516, 4094, 4095}

ControlOpcodes ==
    {Op(0, 0, 14, 0), Op(0, 0, 14, 14)}
    \cup {Op(n1, 0, 0, 0) + nnn : n1 \in {1, 2}, nnn \in Addrs}

RegisterOpcodes ==
    {Op(3, 1, 15, 15), Op(4, 1, 15, 15), Op(5, 1, 15, 0), Op(6, 1, 15, 15),
     Op(7, 1, 15, 15), Op(8, 1, 15, 4), Op(8, 1, 15, 14)}

UnknownOpcodes ==
    {Op(0, 0, 2, 2), Op(0, 0, 0, 0), Op(0, 1, 14, 0),
     Op(5, 0, 1, 1), Op(8, 0, 1, 8), Op(8, 0, 1, 13),
     Op(8, 1, 0, 15), Op(9, 0, 1, 0), Op(10, 1, 2, 3), Op(11, 0, 0, 0),
     Op(12, 0, 15, 15), Op(13, 0, 1, 5), Op(14, 0, 9, 14), Op(15, 1, 6, 5)}

Opcodes == ControlOpcodes \cup RegisterOpcodes \cup UnknownOpcodes

Next ==
    \/ \E op \in Opcodes : steps < MaxSteps /\ run(op)
    \/ read_opcode

Spec == Init /\ [][Next]_vars

\* Calls and returns alone, in the build cargo test makes (overflow checks
\* on), deep enough to fill the stack.
StackOpcodes == {Op(2, 0, 0, 0) + 516, Op(0, 0, 14, 14)}

InitStack == Init /\ overflow_checks

NextStack == \E op \in StackOpcodes : steps < MaxCalls /\ run(op)

SpecStack == InitStack /\ [][NextStack]_vars

\* One instruction applied to registers set beforehand, as test_op_8xye does
\* (cpu.v[1] = ...; cpu.run(0x812e)): the registers of AluRegs are drawn from
\* the bytes within ByteSpan of 0, of 128 and of 255.
AluRegs == {0, 1, 15}

ByteSamples ==
    {b \in 0 .. U8_MOD - 1 :
        \/ b <= ByteSpan
        \/ (b >= 128 - ByteSpan /\ b <= 127 + ByteSpan)
        \/ b >= U8_MOD - 1 - ByteSpan}

AluOpcodes == {Op(8, x, y, n) : x \in AluRegs, y \in AluRegs, n \in {4, 5, 6, 7, 14}}

InitAlu ==
    /\ ram = [a \in 0 .. CHIP8_RAM - 1 |->
                IF a < CHIP8_FONT_SET_SIZE THEN FONT_SET[a + 1] ELSE 0]
    /\ pc = 512
    /\ vram = [row \in 0 .. CHIP8_HEIGHT - 1 |-> [col \in 0 .. CHIP8_WIDTH - 1 |-> 0]]
    /\ sp = 0
    /\ dt = 0
    /\ st = 0
    /\ i = 0
    /\ \E v0 \in ByteSamples, v1 \in ByteSamples, vf \in ByteSamples :
          v = [r \in 0 .. CHIP8_NUM_REGS - 1 |->
                 IF r = 0 THEN v0 ELSE IF r = 1 THEN v1 ELSE IF r = 15 THEN vf ELSE 0]
    /\ stack = [s \in 0 .. STACK_LEN - 1 |-> 0]
    /\ overflow_checks \in BOOLEAN
    /\ status = "new"
    /\ opcode = 0
    /\ before = [pc |-> pc, sp |-> sp, stack |-> stack, v |-> v]
    /\ fetched = 0
    /\ steps = 0
    /\ pushed = << >>

NextAlu == \E op \in AluOpcodes : status = "new" /\ run(op)

SpecAlu == InitAlu /\ [][NextAlu]_vars

\* One skip, load, add-immediate or bitwise instruction applied to registers
\* set beforehand in the same way.
RegSamples == {0, 1, 15, 85, 170, 240, 255}
FlagSamples == {0, 1, 170}
Imms == {0, 1, 85, 255}

RegOpcodes ==
    {Op(n1, x, 0, 0) + kk : n1 \in {3, 4, 6, 7}, x \in AluRegs, kk \in Imms}
    \cup {Op(5, x, y, 0) : x \in AluRegs, y \in AluRegs}
    \cup {Op(8, x, y, n) : x \in AluRegs, y \in AluRegs, n \in 0 .. 3}

InitReg ==
    /\ ram = [a \in 0 .. CHIP8_RAM - 1 |->
                IF a < CHIP8_FONT_SET_SIZE THEN FONT_SET[a + 1] ELSE 0]
    /\ pc = 512
    /\ vram = [row \in 0 .. CHIP8_HEIGHT - 1 |-> [col \in 0 .. CHIP8_WIDTH - 1 |-> 0]]
    /\ sp = 0
    /\ dt = 0
    /\ st = 0
    /\ i = 0
    /\ \E v0 \in RegSamples, v1 \in RegSamples, vf \in FlagSamples :
          v = [r \in 0 .. CHIP8_NUM_REGS - 1 |->
                 IF r = 0 THEN v0 ELSE IF r = 1 THEN v1 ELSE IF r = 15 THEN vf ELSE 0]
    /\ stack = [s \in 0 .. STACK_LEN - 1 |-> 0]
    /\ overflow_checks \in BOOLEAN
    /\ status = "new"
    /\ opcode = 0
    /\ before = [pc |-> pc, sp |-> sp, stack |-> stack, v |-> v]
    /\ fetched = 0
    /\ steps = 0
    /\ pushed = << >>

NextReg == \E op \in RegOpcodes : status = "new" /\ run(op)

SpecReg == InitReg /\ [][NextReg]_vars

\* Steps on a Cpu whose other fields were set beforehand, as
\* test_read_opcode does (cpu.ram[0x200] = 0xB1; cpu.ram[0x201] = 0x5A): a
\* program image in ram, pixels in vram, values in the timers and the index
\* register.
LoadedRam(image) ==
    [a \in 0 .. CHIP8_RAM - 1 |->
        IF a \in DOMAIN image THEN image[a]
        ELSE IF a < CHIP8_FONT_SET_SIZE THEN FONT_SET[a + 1] ELSE 0]

Screen(lit, value) ==
    [row \in 0 .. CHIP8_HEIGHT - 1 |-> [col \in 0 .. CHIP8_WIDTH - 1 |->
        IF << row, col >> \in lit THEN value ELSE 0]]

Setup(n) ==
    CASE n = 0 -> [image |-> << >>, lit |-> {}, value |-> 0,
                   dt |-> 0, st |-> 0, i |-> 0]
      [] n = 1 -> [image |-> (512 :> 177 @@ 513 :> 90),
                   lit |-> (0 .. CHIP8_HEIGHT - 1) \X (0 .. CHIP8_WIDTH - 1), value |-> 1,
                   dt |-> 60, st |-> 255, i |-> 4095]
      [] n = 2 -> [image |-> (516 :> 18 @@ 517 :> 52 @@ 4094 :> 255 @@ 4095 :> 1),
                   lit |-> {<< CHIP8_HEIGHT - 1, CHIP8_WIDTH - 1 >>}, value |-> 1,
                   dt |-> 1, st |-> 0, i |-> 80]
      [] n = 3 -> [image |-> (512 :> 0 @@ 513 :> 224),
                   lit |-> {<< 0, 0 >>}, value |-> 255,
                   dt |-> 0, st |-> 7, i |-> 512]

FieldOpcodes == ControlOpcodes \cup RegisterOpcodes \cup {Op(0, 0, 2, 2)}

InitFields ==
    \E n \in 0 .. 3 :
        /\ ram = LoadedRam(Setup(n).image)
        /\ pc = 512
        /\ vram = Screen(Setup(n).lit, Setup(n).value)
        /\ sp = 0
        /\ dt = Setup(n).dt
        /\ st = Setup(n).st
        /\ i = Setup(n).i
        /\ v = [r \in 0 .. CHIP8_NUM_REGS - 1 |-> 0]
        /\ stack = [s \in 0 .. STACK_LEN - 1 |-> 0]
        /\ overflow_checks \in BOOLEAN
        /\ status = "new"
        /\ opcode = 0
        /\ before = [pc |-> pc, sp |-> sp, stack |-> stack, v |-> v]
        /\ fetched = 0
        /\ steps = 0
        /\ pushed = << >>

NextFields ==
    \/ \E op \in FieldOpcodes : steps < MaxFieldSteps /\ run(op)
    \/ read_opcode

SpecFields == InitFields /\ [][NextFields]_vars

\* Well-nested calls and returns from construction: a 2nnn only while a
\* stack slot is left for it (sp < 15), a 00EE only for a 2nnn that has not
\* been returned from. The target of a call depends on the depth it is made
\* at, with a choice of two targets at every fifth depth.
MaxNest == STACK_LEN - 1

NestTargets(depth) ==
    {514 + 2 * depth} \cup (IF depth % 5 = 0 THEN {770 + 2 * depth} ELSE {})

NextNest ==
    \/ \E nnn \in NestTargets(Len(pushed)) :
          /\ steps < MaxNestSteps
          /\ Len(pushed) < MaxNest
          /\ run(Op(2, 0, 0, 0) + nnn)
    \/ /\ steps < MaxNestSteps
       /\ pushed # << >>
       /\ run(Op(0, 0, 14, 14))

SpecNest == Init /\ [][NextNest]_vars

\* ------------------------------------------------------------------- claims

\* what the last call of run was, read off its argument and the state it found
Ran == steps > 0
Faulted == status \in {"unimplemented", "overflow", "stack_index"}
Returned == Ran /\ ~Faulted
RET == Op(0, 0, 14, 14)
IsCALL(op) == Nibble1(op) = 2
IsJP(op) == Nibble1(op) = 1
IsAlu(op, n) == Nibble1(op) = 8 /\ Nibble4(op) = n
X == Nibble2(opcode)
Y == Nibble3(opcode)
Even(n) == n % 2 = 0

\* C1: a CALL (2nnn) executed at program_counter = p with stack_pointer <= 14,
\* followed at once by a RET (00EE), leaves program_counter = p + 2.
\* (In the state after the CALL, before.pc is p and before.sp the pointer the
\* CALL found.)
C1_CallRetRestoresNextInstruction ==
    [][(/\ Returned /\ IsCALL(opcode) /\ before.sp <= 14
        /\ steps' = steps + 1 /\ opcode' = RET)
       => (status' = "ok" /\ pc' = before.pc + CHIP8_OPCODE_SIZE)]_vars

\* C2: the opcode patterns the claim lists as defined
DefinedPattern(op) ==
    \/ op \in {Op(0, 0, 14, 0), Op(0, 0, 14, 14)}
    \/ Nibble1(op) \in {1, 2, 3, 4, 6, 7}
    \/ Nibble1(op) = 5 /\ Nibble4(op) = 0
    \/ Nibble1(op) = 8 /\ Nibble4(op) \in (0 .. 7) \cup {14}

\* C2: a step with an opcode that matches none of the defined patterns ends
\* in the fatal error and leaves program_counter, stack_pointer, stack,
\* registers, memory, timers, index register and frame buffer as they were.
C2_UnknownOpcodeFaultsAndChangesNothing ==
    [][(steps' = steps + 1 /\ ~DefinedPattern(opcode'))
       => (/\ status' = "unimplemented"
           /\ UNCHANGED << pc, sp, stack, v, ram, dt, st, i, vram >>)]_vars

\* C2 witness: 0x0022 has faulted after an earlier step had loaded a register
C2_Witness ==
    /\ Ran /\ opcode = Op(0, 0, 2, 2) /\ status = "unimplemented"
    /\ v[1] = 255 /\ pc = before.pc /\ pc > 512

C4_FetchAddressesInMemory == pc >= 0 /\ pc + 1 <= CHIP8_RAM - 1

\* C5: stack_pointer <= 15 in every reachable state, the state a faulting
\* step leaves included.
C5_StackPointerAtMost15 == sp <= 15

\* C6: a RET (00EE) executed with stack_pointer = 0 ends in an error, and
\* stack_pointer and program_counter keep their values.
C6_RetOnEmptyStackRejected ==
    (Ran /\ opcode = RET /\ before.sp = 0)
    => (Faulted /\ sp = before.sp /\ pc = before.pc)

\* C7: 8xy4 with x # 0xF leaves Vx = (Vx + Vy) mod 256 and VF = 1 if the sum
\* exceeds 255, else 0; it does not fault and program_counter advances by 2.
C7_AddWithCarry ==
    (Ran /\ IsAlu(opcode, 4) /\ X # 15)
    => (/\ status = "ok"
        /\ v[X] = (before.v[X] + before.v[Y]) % 256
        /\ v[15] = (IF before.v[X] + before.v[Y] > 255 THEN 1 ELSE 0)
        /\ pc = before.pc + 2)

\* C7 witness: 0xFF + 0x02 gives 0x01 with VF = 1
C7_Witness ==
    /\ Ran /\ IsAlu(opcode, 4) /\ X = 0 /\ Y = 1
    /\ before.v[0] = 255 /\ before.v[1] = 2 /\ v[0] = 1 /\ v[15] = 1

\* C8: with x # 0xF, 8xy5 leaves Vx = (Vx - Vy) mod 256 and VF = 1 exactly
\* when Vx < Vy, 8xy7 leaves Vx = (Vy - Vx) mod 256 and VF = 1 exactly when
\* Vy < Vx; neither faults and each advances program_counter by 2.
C8_SubAndSubnWithBorrow ==
    /\ (Ran /\ IsAlu(opcode, 5) /\ X # 15)
       => (/\ status = "ok"
           /\ v[X] = (before.v[X] - before.v[Y]) % 256
           /\ v[15] = (IF before.v[X] < before.v[Y] THEN 1 ELSE 0)
           /\ pc = before.pc + 2)
    /\ (Ran /\ IsAlu(opcode, 7) /\ X # 15)
       => (/\ status = "ok"
           /\ v[X] = (before.v[Y] - before.v[X]) % 256
           /\ v[15] = (IF before.v[Y] < before.v[X] THEN 1 ELSE 0)
           /\ pc = before.pc + 2)

\* C8 witness: 8xy7 on Vx = 2, Vy = 1 wraps to 0xFF with VF = 1
C8_Witness ==
    /\ Ran /\ IsAlu(opcode, 7) /\ X = 0 /\ Y = 1
    /\ before.v[0] = 2 /\ before.v[1] = 1 /\ v[0] = 255 /\ v[15] = 1

\* C9: with x # 0xF, 8xyE leaves VF = bit 7 of Vx and Vx = (2 * Vx) mod 256,
\* 8xy6 leaves VF = bit 0 of Vx and Vx = Vx div 2, and nothing else of the
\* registers changes, whatever y and Vy are.
C9_ShiftsReadPreShiftBitAndIgnoreY ==
    /\ (Ran /\ IsAlu(opcode, 14) /\ X # 15)
       => (/\ status = "ok"
           /\ v = [before.v EXCEPT ![X] = (2 * before.v[X]) % 256,
                                   ![15] = before.v[X] \div 128]
           /\ sp = before.sp /\ stack = before.stack
           /\ pc = before.pc + 2)
    /\ (Ran /\ IsAlu(opcode, 6) /\ X # 15)
       => (/\ status = "ok"
           /\ v = [before.v EXCEPT ![X] = before.v[X] \div 2,
                                   ![15] = before.v[X] % 2]
           /\ sp = before.sp /\ stack = before.stack
           /\ pc = before.pc + 2)

\* C9 witness: 8xyE on Vx = 0b10000001 with a different Vy gives
\* Vx = 0b00000010 and VF = 1
C9_Witness ==
    /\ Ran /\ IsAlu(opcode, 14) /\ X = 1 /\ Y = 0
    /\ before.v[1] = 129 /\ before.v[0] = 254 /\ v[1] = 2 /\ v[15] = 1

\* the flag each flag-defining instruction computes from the registers it found
FlagOutcome ==
    CASE IsAlu(opcode, 4) -> (IF before.v[X] + before.v[Y] > 255 THEN 1 ELSE 0)
      [] IsAlu(opcode, 5) -> (IF before.v[X] < before.v[Y] THEN 1 ELSE 0)
      [] IsAlu(opcode, 6) -> before.v[X] % 2
      [] IsAlu(opcode, 7) -> (IF before.v[Y] < before.v[X] THEN 1 ELSE 0)
      [] IsAlu(opcode, 14) -> before.v[X] \div 128

\* C10: after 8xy4, 8xy5, 8xy6, 8xy7 or 8xyE, for every x and y (0xF
\* included), VF is 0 or 1 and is the instruction's carry, borrow or
\* shifted-out bit computed from the registers before the step.
C10_FlagWrittenLast ==
    (Ran /\ \E n \in {4, 5, 6, 7, 14} : IsAlu(opcode, n))
    => (v[15] \in {0, 1} /\ v[15] = FlagOutcome)


\* C11: 7xkk, for every x, succeeds, leaves Vx = (Vx + kk) mod 256, advances
\* program_counter by 2 and, for x # 0xF, leaves VF unchanged.
C11_AddImmediateWrapsNeverFaults ==
    (Ran /\ Nibble1(opcode) = 7)
    => (/\ status = "ok"
        /\ v[X] = (before.v[X] + KK(opcode)) % 256
        /\ pc = before.pc + 2
        /\ (X # 15 => v[15] = before.v[15]))

\* C18: 3xkk advances program_counter by 4 if Vx = kk and by 2 otherwise,
\* 4xkk by 4 if Vx # kk and by 2 otherwise, 5xy0 by 4 if Vx = Vy and by 2
\* otherwise; none of them changes a register, the stack, stack_pointer or
\* the frame buffer.
C18_SkipsChangeOnlyPc ==
    [][(steps' = steps + 1 /\ Nibble1(opcode') \in {3, 4, 5})
       => LET x    == Nibble2(opcode')
              y    == Nibble3(opcode')
              kk   == KK(opcode')
              skip == CASE Nibble1(opcode') = 3 -> v[x] = kk
                        [] Nibble1(opcode') = 4 -> v[x] # kk
                        [] Nibble1(opcode') = 5 -> v[x] = v[y]
          IN  /\ status' = "ok"
              /\ pc' = pc + (IF skip THEN 4 ELSE 2)
              /\ UNCHANGED << v, stack, sp, vram >>]_vars

\* C18 witness: 4xkk has skipped on Vx = 170, kk = 85
C18_Witness ==
    /\ Ran /\ Nibble1(opcode) = 4 /\ X = 1 /\ KK(opcode) = 85
    /\ before.v[1] = 170 /\ v = before.v /\ pc = before.pc + 4

\* bit k of a byte, and the byte whose bit k is f of the operands' bits k
BitOf(a, k) == (a \div (2 ^ k)) % 2
OrByte(a, b) ==
    LET B(k) == IF BitOf(a, k) + BitOf(b, k) >= 1 THEN 2 ^ k ELSE 0
    IN  B(0) + B(1) + B(2) + B(3) + B(4) + B(5) + B(6) + B(7)
AndByte(a, b) ==
    LET B(k) == IF BitOf(a, k) + BitOf(b, k) = 2 THEN 2 ^ k ELSE 0
    IN  B(0) + B(1) + B(2) + B(3) + B(4) + B(5) + B(6) + B(7)
XorByte(a, b) ==
    LET B(k) == IF BitOf(a, k) + BitOf(b, k) = 1 THEN 2 ^ k ELSE 0
    IN  B(0) + B(1) + B(2) + B(3) + B(4) + B(5) + B(6) + B(7)

\* what each load and bitwise instruction leaves in Vx
LoadOutcome ==
    CASE Nibble1(opcode) = 6 -> KK(opcode)
      [] IsAlu(opcode, 0) -> before.v[Y]
      [] IsAlu(opcode, 1) -> OrByte(before.v[X], before.v[Y])
      [] IsAlu(opcode, 2) -> AndByte(before.v[X], before.v[Y])
      [] IsAlu(opcode, 3) -> XorByte(before.v[X], before.v[Y])

\* C20: 6xkk leaves Vx = kk, 8xy0 Vx = Vy, 8xy1 Vx = Vx OR Vy, 8xy2
\* Vx = Vx AND Vy, 8xy3 Vx = Vx XOR Vy; each advances program_counter by 2
\* and leaves every register other than Vx unchanged.
C20_LoadsAndBitwiseWriteOnlyVx ==
    (Ran /\ (Nibble1(opcode) = 6 \/ \E n \in 0 .. 3 : IsAlu(opcode, n)))
    => (/\ status = "ok"
        /\ v = [before.v EXCEPT ![X] = LoadOutcome]
        /\ pc = before.pc + 2)

\* C20 witness: 8xy3 on Vx = 85, Vy = 255 leaves Vx = 170 and VF as it was
C20_Witness ==
    /\ Ran /\ IsAlu(opcode, 3) /\ X = 0 /\ Y = 1
    /\ before.v[0] = 85 /\ before.v[1] = 255 /\ v[0] = 170
    /\ before.v[15] = 170 /\ v[15] = 170


CLS == Op(0, 0, 14, 0)

\* C12: 00E0 leaves every pixel 0, advances program_counter by 2 and changes
\* nothing else; executed a second time it leaves the frame buffer as the
\* first left it and advances program_counter by 2 again.
C12_ClsClearsAndIsIdempotent ==
    [][(steps' = steps + 1 /\ opcode' = CLS)
       => (/\ status' = "ok"
           /\ \A row \in 0 .. CHIP8_HEIGHT - 1 : \A col \in 0 .. CHIP8_WIDTH - 1 :
                 vram'[row][col] = 0
           /\ pc' = pc + 2
           /\ UNCHANGED << v, i, stack, sp, ram, dt, st >>
           /\ ((Ran /\ opcode = CLS) => vram' = vram))]_vars

\* C12 witness: a second 00E0 in a row has run on the Cpu whose screen was
\* fully lit (the one set up with dt = 60)
C12_Witness ==
    /\ steps = 2 /\ opcode = CLS /\ status = "ok" /\ dt = 60
    /\ before.pc = 514 /\ pc = 516 /\ vram[CHIP8_HEIGHT - 1][CHIP8_WIDTH - 1] = 0

\* C14: read_opcode, at a program_counter p with p and p + 1 in memory,
\* returns memory[p] * 256 + memory[p + 1] and leaves every field unchanged.
\* (A step that leaves the count of runs unchanged is a read_opcode.)
C14_FetchIsPureBigEndianRead ==
    [][(steps' = steps)
       => (/\ UNCHANGED << ram, stack, pc, sp, dt, st, i, v, vram >>
           /\ (pc + 1 <= CHIP8_RAM - 1
               => (fetched' = ram[pc] * 256 + ram[pc + 1] /\ status' = status)))]_vars

\* C14 witness: 0xB15A has been read at 0x200
C14_Witness ==
    /\ fetched = 45402 /\ pc = 512 /\ ram[512] = 177 /\ ram[513] = 90 /\ status = "new"

\* C16: every step leaves delay_timer, sound_timer, index_register and the
\* 4096 bytes of memory unchanged, and memory[0..79] holds the font table in
\* every reachable state.
C16_CoreLeavesTimersMemoryIndex ==
    /\ [](\A a \in 0 .. CHIP8_FONT_SET_SIZE - 1 : ram[a] = FONT_SET[a + 1])
    /\ [][(steps' = steps + 1) => UNCHANGED << dt, st, i, ram >>]_vars

\* C16 witness: two instructions have run on the Cpu set up with both timers
\* running, an index and a program in memory
C16_Witness ==
    /\ steps = 2 /\ status = "ok" /\ dt = 60 /\ st = 255 /\ i = 4095
    /\ ram[513] = 90 /\ v[1] = 255 /\ sp = 1


\* C13: immediately after construction memory[0..79] holds the font table and
\* memory[80..4095] is 0, program_counter = 0x200, stack_pointer = 0, and every
\* register, stack slot, index_register, both timers and every pixel are 0.
C13_InitialState ==
    (steps = 0 /\ status = "new")
    => (/\ \A a \in 0 .. CHIP8_FONT_SET_SIZE - 1 : ram[a] = FONT_SET[a + 1]
        /\ \A a \in CHIP8_FONT_SET_SIZE .. CHIP8_RAM - 1 : ram[a] = 0
        /\ pc = 512
        /\ sp = 0
        /\ \A r \in 0 .. CHIP8_NUM_REGS - 1 : v[r] = 0
        /\ \A s \in 0 .. STACK_LEN - 1 : stack[s] = 0
        /\ i = 0 /\ dt = 0 /\ st = 0
        /\ \A row \in 0 .. CHIP8_HEIGHT - 1 : \A col \in 0 .. CHIP8_WIDTH - 1 :
              vram[row][col] = 0)

\* C13 witness: the constructed Cpu, nothing run yet, with the first and the
\* last font byte in place
C13_Witness ==
    /\ steps = 0 /\ status = "new" /\ fetched = 0
    /\ ram[0] = 240 /\ ram[CHIP8_FONT_SET_SIZE - 1] = 128 /\ pc = 512

\* what a successful step adds to stack_pointer: 1 for a CALL, -1 for a RET
SpDelta(op) == IF IsCALL(op) THEN 1 ELSE IF op = RET THEN -1 ELSE 0

\* C15: a CALL (2nnn) at stack_pointer = s <= 14 raises stack_pointer to s + 1
\* and writes the caller's program_counter into stack[s + 1]; an immediately
\* following RET returns stack_pointer to s; and stack_pointer always equals
\* the successful CALLs minus the successful RETs (each successful step adds
\* 1 for a CALL, -1 for a RET, 0 otherwise, starting from 0).
C15_StackPointerCountsCallsMinusRets ==
    [][(steps' = steps + 1)
       => (/\ (IsCALL(opcode') /\ sp <= 14)
               => (status' = "ok" /\ sp' = sp + 1 /\ stack'[sp + 1] = pc)
           /\ (Returned /\ IsCALL(opcode) /\ before.sp <= 14 /\ opcode' = RET)
               => (status' = "ok" /\ sp' = before.sp)
           /\ (status' = "ok") => (sp' = sp + SpDelta(opcode')))]_vars

\* C17: from construction, 16 consecutive CALLs with no RET in between all
\* succeed, and the first CALL rejected as a stack overflow is the 17th.
C17_SixteenCallsSucceed ==
    (Ran /\ IsCALL(opcode) /\ before.sp = steps - 1)
    => (/\ (steps <= 16 => status = "ok")
        /\ (status = "stack_index" => steps = 17))

\* C19: nested calls return in LIFO order: every RET of a well-nested
\* sequence of up to 15 CALLs succeeds, jumps to the value written by the
\* newest CALL not yet returned from, and lowers stack_pointer by 1; the stack
\* slots 1..sp hold, untouched, the values of the CALLs not yet returned from,
\* so that stack_pointer is back at 0 when all have returned.
C19_NestedCallsReturnLifo ==
    /\ [](sp = Len(pushed) /\ \A j \in 1 .. Len(pushed) : stack[j] = pushed[j])
    /\ [][(steps' = steps + 1 /\ opcode' = RET)
          => (/\ status' = "ok"
              /\ pc' = pushed[Len(pushed)]
              /\ sp' = sp - 1
              /\ pushed' = SubSeq(pushed, 1, Len(pushed) - 1))]_vars

\* C19 witness: 15 CALLs followed by 15 RETs have run (slot 15 was written, and
\* stack_pointer is back at 0 after 30 steps)
C19_Witness ==
    /\ steps = 30 /\ opcode = RET /\ status = "ok" /\ sp = 0 /\ pushed = << >>
    /\ stack[15] = 540 /\ stack[1] = 512 /\ pc = 512

====
